---- MODULE Spec2Model ----
(***************************************************************************)
(* CPU scheduling simulator: FCFSSchedule, SJFSchedule,                    *)
(* SJFPrioritySchedule and RRSchedule run over one shared batch of         *)
(* process descriptors.  One action per loop iteration of each scheduler,  *)
(* one for the call (locals, in-place sort) and one for the return         *)
(* (averages).  float64 accumulators hold small integers and are kept as   *)
(* integers; the three averages are float64 quotients and keep the         *)
(* IEEE-754 outcome of a zero divisor.  Schedule rows hold the seven       *)
(* numbers that fmt.Sprint renders, in column order.                       *)
(***************************************************************************)
EXTENDS Integers, Sequences, FiniteSets, TLC

MaxProcs == 2
MaxArrival == 2
MaxBurst == 5

quantum == 1

\* Process struct; ProcessID is the 1-based row number of the input file,
\* Priority is 0 (three-column input).
Process(id, arrival, burst) ==
    [ProcessID |-> id, ArrivalTime |-> arrival, BurstDuration |-> burst, Priority |-> 0]

TimeSlice(pid, start, stop) == [PID |-> pid, Start |-> start, Stop |-> stop]

PriorityProcess(p, k) == [Process |-> p, Priority |-> k]

BatchesOfLen(n) ==
    { [k \in 1..n |-> Process(k, a[k], b[k])] :
        a \in [1..n -> 0..MaxArrival], b \in [1..n -> 1..MaxBurst] }

\* loadProcesses: one descriptor per row, in file order
Batches == UNION { BatchesOfLen(n) : n \in 0..MaxProcs }

min(a, b) == IF a < b THEN a ELSE b

max(a, b) == IF a > b THEN a ELSE b

\* float64 division a / b of two integral values: x/0 is an infinity, 0/0 is NaN
Quotient(a, b) ==
    IF b # 0 THEN [kind |-> "finite", num |-> a, den |-> b]
    ELSE IF a = 0 THEN [kind |-> "NaN", num |-> 0, den |-> 0]
    ELSE [kind |-> "Inf", num |-> a, den |-> 0]

NoValue == [kind |-> "unset", num |-> 0, den |-> 0]

\* a schedule row: ID, Priority, Burst, Arrival, Wait, Turnaround, Exit
Row(id, priority, burst, arrival, wait, turnaround, completion) ==
    <<id, priority, burst, arrival, wait, turnaround, completion>>

\* make([][]string, n): n nil rows
EmptySchedule(n) == [k \in 1..n |-> <<>>]

RowID(r) == r[1]
RowBurst(r) == r[3]
RowArrival(r) == r[4]
RowWait(r) == r[5]
RowTurnaround(r) == r[6]
RowExit(r) == r[7]

----
\* sort.Slice by ArrivalTime: insertion sort for slices of at most 12 elements

SwapAt(s, a, b) == [s EXCEPT ![a] = s[b], ![b] = s[a]]

RECURSIVE SinkLeft(_, _)
SinkLeft(s, j) ==
    IF j > 1 /\ s[j].ArrivalTime < s[j - 1].ArrivalTime
    THEN SinkLeft(SwapAt(s, j, j - 1), j - 1)
    ELSE s

RECURSIVE InsertionSortFrom(_, _)
InsertionSortFrom(s, k) ==
    IF k > Len(s) THEN s ELSE InsertionSortFrom(SinkLeft(s, k), k + 1)

SortByArrival(s) == InsertionSortFrom(s, 2)

----
\* PriorityQueue under container/heap (1-based positions)

LessReversed(pq, a, b) == pq[a].Priority > pq[b].Priority

Less(pq, a, b) == pq[a].Priority < pq[b].Priority

RECURSIVE up(_, _)
up(pq, j) ==
    IF j = 1 \/ ~Less(pq, j, j \div 2)
    THEN pq
    ELSE up(SwapAt(pq, j \div 2, j), j \div 2)

RECURSIVE down(_, _, _)
down(pq, i0, n) ==
    LET j1 == 2 * i0
        j2 == j1 + 1
        j  == IF j2 <= n /\ Less(pq, j2, j1) THEN j2 ELSE j1
    IN  IF j1 > n THEN pq
        ELSE IF ~Less(pq, j, i0) THEN pq
        ELSE down(SwapAt(pq, i0, j), j, n)

heapPush(pq, x) == up(Append(pq, x), Len(pq) + 1)

\* heap.Pop on a non-empty queue: the item returned and the queue left
heapPop(pq) ==
    LET n == Len(pq) - 1
        h == down(SwapAt(pq, 1, Len(pq)), 1, n)
    IN  [item |-> h[Len(pq)], rest |-> SubSeq(h, 1, n)]

----
VARIABLES processes, before, policy, pc,
          serviceTime, totalWait, totalTurnaround, lastCompletion, waitingTime,
          schedule, gantt, readyQueue, queue, processCounter, fcfsI,
          aveWait, aveTurnaround, aveThroughput

vars == <<processes, before, policy, pc,
          serviceTime, totalWait, totalTurnaround, lastCompletion, waitingTime,
          schedule, gantt, readyQueue, queue, processCounter, fcfsI,
          aveWait, aveTurnaround, aveThroughput>>

Init ==
    /\ processes \in Batches
    /\ before = processes
    /\ policy = "none"
    /\ pc = "idle"
    /\ serviceTime = 0
    /\ totalWait = 0
    /\ totalTurnaround = 0
    /\ lastCompletion = 0
    /\ waitingTime = 0
    /\ schedule = <<>>
    /\ gantt = <<>>
    /\ readyQueue = <<>>
    /\ queue = <<>>
    /\ processCounter = 0
    /\ fcfsI = 1
    /\ aveWait = NoValue
    /\ aveTurnaround = NoValue
    /\ aveThroughput = NoValue

\* the var block of each scheduler: zero values and fresh slices
Locals(p, batch) ==
    /\ policy' = p
    /\ pc' = "loop"
    /\ before' = processes
    /\ processes' = batch
    /\ serviceTime' = 0
    /\ totalWait' = 0
    /\ totalTurnaround' = 0
    /\ lastCompletion' = 0
    /\ waitingTime' = 0
    /\ schedule' = EmptySchedule(Len(processes))
    /\ gantt' = <<>>
    /\ readyQueue' = <<>>
    /\ queue' = <<>>
    /\ processCounter' = 0
    /\ fcfsI' = 1
    /\ aveWait' = NoValue
    /\ aveTurnaround' = NoValue
    /\ aveThroughput' = NoValue

Callable == pc \in {"idle", "done"}

ThroughputInverted(count, last) == Quotient(last, count)

\* aveThroughput := count / lastCompletion
Throughput(count, last) == Quotient(count, last)

\* count, aveWait, aveTurnaround, aveThroughput and the output calls
Averages ==
    LET count == Len(processes)
    IN  /\ aveWait' = Quotient(totalWait, count)
        /\ aveTurnaround' = Quotient(totalTurnaround, count)
        /\ aveThroughput' = Throughput(count, lastCompletion)
        /\ pc' = "done"
        /\ UNCHANGED <<processes, before, policy, serviceTime, totalWait,
                       totalTurnaround, lastCompletion, waitingTime, schedule,
                       gantt, readyQueue, queue, processCounter, fcfsI>>

----
\* FCFSSchedule

CallFCFS == Callable /\ Locals("FCFS", processes)

FCFSWaitingTimeRecomputed(p, prevWait, svc) == svc - p.ArrivalTime

\* wait of processes[i]: recomputed only when ArrivalTime > 0
FCFSWaitingTime(p, prevWait, svc) ==
    IF p.ArrivalTime > 0 THEN svc - p.ArrivalTime ELSE prevWait

FCFSStep ==
    /\ pc = "loop" /\ policy = "FCFS"
    /\ fcfsI <= Len(processes)
    /\ LET p == processes[fcfsI]
           w == FCFSWaitingTime(p, waitingTime, serviceTime)
           start == w + p.ArrivalTime
           turnaround == p.BurstDuration + w
           completion == p.BurstDuration + p.ArrivalTime + w
       IN  /\ waitingTime' = w
           /\ totalWait' = totalWait + w
           /\ totalTurnaround' = totalTurnaround + turnaround
           /\ lastCompletion' = completion
           /\ schedule' = [schedule EXCEPT ![fcfsI] =
                 Row(p.ProcessID, p.Priority, p.BurstDuration, p.ArrivalTime,
                     w, turnaround, completion)]
           /\ serviceTime' = serviceTime + p.BurstDuration
           /\ gantt' = Append(gantt, TimeSlice(p.ProcessID, start,
                                               serviceTime + p.BurstDuration))
    /\ fcfsI' = fcfsI + 1
    /\ UNCHANGED <<processes, before, policy, pc, readyQueue, queue,
                   processCounter, aveWait, aveTurnaround, aveThroughput>>

FCFSFinish ==
    /\ pc = "loop" /\ policy = "FCFS"
    /\ fcfsI > Len(processes)
    /\ Averages

----
\* admission shared by the three queueing schedulers

ArrivedOneEarly(p, t) == p.ArrivalTime <= t + 1

Arrived(p, t) == p.ArrivalTime <= t

\* processCounter after the admission loop: it stops at the first process
\* that has not arrived
RECURSIVE AdmitUpTo(_, _, _)
AdmitUpTo(ps, c, t) ==
    IF c < Len(ps) /\ Arrived(ps[c + 1], t) THEN AdmitUpTo(ps, c + 1, t) ELSE c

RECURSIVE PushEach(_, _)
PushEach(pq, items) ==
    IF items = <<>> THEN pq ELSE PushEach(heapPush(pq, Head(items)), Tail(items))

\* heap.Pop of an empty PriorityQueue: Swap(0, -1) indexes out of range
Panic ==
    /\ pc' = "panic"
    /\ UNCHANGED <<processes, before, policy, serviceTime, totalWait,
                   totalTurnaround, lastCompletion, waitingTime, schedule,
                   gantt, readyQueue, queue, processCounter, fcfsI,
                   aveWait, aveTurnaround, aveThroughput>>

\* the body of the SJF and SJF-Priority loop after the admission loop:
\* pop, metrics, gantt entry, row at processCounter-1
PopAndRecord(pq, counter) ==
    IF pq = <<>> THEN Panic
    ELSE
      LET popped == heapPop(pq)
          currentProcess == popped.item.Process
          w == serviceTime - currentProcess.ArrivalTime
          start == w + currentProcess.ArrivalTime
          turnaround == currentProcess.BurstDuration + w
          completion == currentProcess.BurstDuration + currentProcess.ArrivalTime + w
      IN  /\ readyQueue' = popped.rest
          /\ processCounter' = counter
          /\ waitingTime' = w
          /\ totalWait' = totalWait + w
          /\ totalTurnaround' = totalTurnaround + turnaround
          /\ lastCompletion' = completion
          /\ serviceTime' = serviceTime + currentProcess.BurstDuration
          /\ gantt' = Append(gantt, TimeSlice(currentProcess.ProcessID, start,
                                serviceTime + currentProcess.BurstDuration))
          /\ schedule' = [schedule EXCEPT ![counter] =
                Row(currentProcess.ProcessID, currentProcess.Priority,
                    currentProcess.BurstDuration, currentProcess.ArrivalTime,
                    w, turnaround, completion)]
          /\ UNCHANGED <<processes, before, policy, pc, queue, fcfsI,
                         aveWait, aveTurnaround, aveThroughput>>

----
\* SJFSchedule

CallSJF == Callable /\ Locals("SJF", SortByArrival(processes))

SJFKey(p) == p.BurstDuration

SJFStep ==
    /\ pc = "loop" /\ policy = "SJF"
    /\ processCounter < Len(processes)
    /\ LET counter == AdmitUpTo(processes, processCounter, serviceTime)
           items == [k \in 1..(counter - processCounter) |->
                       PriorityProcess(processes[processCounter + k],
                                       SJFKey(processes[processCounter + k]))]
       IN  PopAndRecord(PushEach(readyQueue, items), counter)

SJFFinish ==
    /\ pc = "loop" /\ policy = "SJF"
    /\ ~(processCounter < Len(processes))
    /\ Averages

----
\* SJFPrioritySchedule

CallSJFPriority == Callable /\ Locals("SJFPriority", SortByArrival(processes))

\* int(1.0 / float64(BurstDuration)) for a positive burst
PriorityKey(p) == 1 \div p.BurstDuration

SJFPriorityStep ==
    /\ pc = "loop" /\ policy = "SJFPriority"
    /\ processCounter < Len(processes)
    /\ LET counter == AdmitUpTo(processes, processCounter, serviceTime)
           items == [k \in 1..(counter - processCounter) |->
                       PriorityProcess(processes[processCounter + k],
                                       PriorityKey(processes[processCounter + k]))]
       IN  PopAndRecord(PushEach(readyQueue, items), counter)

SJFPriorityFinish ==
    /\ pc = "loop" /\ policy = "SJFPriority"
    /\ ~(processCounter < Len(processes))
    /\ Averages

----
\* RRSchedule

CallRR == Callable /\ Locals("RR", processes)

\* the ready queue after the admission loop of one iteration
RRAdmitted ==
    queue \o SubSeq(processes, processCounter + 1,
                    AdmitUpTo(processes, processCounter, serviceTime))

RRTimeSliceWholeBurst(p) == p.BurstDuration

RRTimeSlice(p) == min(quantum, p.BurstDuration)

RRStart(p, svc) == max(svc, p.ArrivalTime)

RRWaitingTimeFromZero(p, start) == max(0, start)

RRWaitingTime(p, start) == max(0, start - p.ArrivalTime)

RequeueUnlessLastUnit(q, p, remainingBurst) ==
    IF remainingBurst > 1
    THEN Append(q, [p EXCEPT !.BurstDuration = remainingBurst])
    ELSE q

\* re-add the working copy with its remaining burst, at the back
Requeue(q, p, remainingBurst) ==
    IF remainingBurst > 0
    THEN Append(q, [p EXCEPT !.BurstDuration = remainingBurst])
    ELSE q

RRRun ==
    /\ pc = "loop" /\ policy = "RR"
    /\ Len(queue) > 0 \/ processCounter < Len(processes)
    /\ Len(RRAdmitted) > 0
    /\ LET currentProcess == Head(RRAdmitted)
           timeSlice == RRTimeSlice(currentProcess)
           start == RRStart(currentProcess, serviceTime)
           w == RRWaitingTime(currentProcess, start)
           turnaround == timeSlice + w
           completion == start + timeSlice
           remainingBurst == currentProcess.BurstDuration - timeSlice
       IN  /\ totalTurnaround' = totalTurnaround + turnaround
           /\ lastCompletion' = completion
           /\ totalWait' = totalWait + w
           /\ schedule' = [schedule EXCEPT ![currentProcess.ProcessID] =
                 Row(currentProcess.ProcessID, currentProcess.Priority,
                     timeSlice, start, w, turnaround, completion)]
           /\ gantt' = Append(gantt, TimeSlice(currentProcess.ProcessID,
                                               start, completion))
           /\ queue' = Requeue(Tail(RRAdmitted), currentProcess, remainingBurst)
           /\ serviceTime' = completion
    /\ processCounter' = AdmitUpTo(processes, processCounter, serviceTime)
    /\ UNCHANGED <<before, policy, pc, waitingTime, readyQueue, fcfsI,
                   aveWait, aveTurnaround, aveThroughput>>

\* the position in the batch of the descriptor with a given id
PositionOf(ps, id) == CHOOSE k \in 1..Len(ps) : ps[k].ProcessID = id

RRDispatchAliased ==
    /\ RRRun
    /\ LET currentProcess == Head(RRAdmitted)
       IN  processes' = [processes EXCEPT
              ![PositionOf(processes, currentProcess.ProcessID)].BurstDuration =
                  currentProcess.BurstDuration - RRTimeSlice(currentProcess)]

\* currentProcess and the queue entries are copies: the batch is not written
RRDispatch == RRRun /\ processes' = processes

RRIdleStuck ==
    /\ pc = "loop" /\ policy = "RR"
    /\ Len(queue) > 0 \/ processCounter < Len(processes)
    /\ Len(RRAdmitted) = 0
    /\ serviceTime' = serviceTime
    /\ queue' = RRAdmitted
    /\ processCounter' = AdmitUpTo(processes, processCounter, serviceTime)
    /\ UNCHANGED <<processes, before, policy, pc, totalWait, totalTurnaround,
                   lastCompletion, waitingTime, schedule, gantt, readyQueue,
                   fcfsI, aveWait, aveTurnaround, aveThroughput>>

\* the else branch: the queue is empty after admission, serviceTime++
RRIdle ==
    /\ pc = "loop" /\ policy = "RR"
    /\ Len(queue) > 0 \/ processCounter < Len(processes)
    /\ Len(RRAdmitted) = 0
    /\ serviceTime' = serviceTime + 1
    /\ queue' = RRAdmitted
    /\ processCounter' = AdmitUpTo(processes, processCounter, serviceTime)
    /\ UNCHANGED <<processes, before, policy, pc, totalWait, totalTurnaround,
                   lastCompletion, waitingTime, schedule, gantt, readyQueue,
                   fcfsI, aveWait, aveTurnaround, aveThroughput>>

RRFinish ==
    /\ pc = "loop" /\ policy = "RR"
    /\ ~(Len(queue) > 0 \/ processCounter < Len(processes))
    /\ Averages

----
Next ==
    \/ CallFCFS \/ FCFSStep \/ FCFSFinish
    \/ CallSJF \/ SJFStep \/ SJFFinish
    \/ CallSJFPriority \/ SJFPriorityStep \/ SJFPriorityFinish
    \/ CallRR \/ RRDispatch \/ RRIdle \/ RRFinish

Spec == Init /\ [][Next]_vars

----
\* Properties

SJFLike == {"SJF", "SJFPriority"}

Filled(r) == r # <<>>

IntervalsOf(id) == { g \in 1..Len(gantt) : gantt[g].PID = id }

RowsOf(id) == { r \in 1..Len(schedule) : Filled(schedule[r]) /\ RowID(schedule[r]) = id }

RECURSIVE SumBursts(_, _)
SumBursts(ps, n) == IF n = 0 THEN 0 ELSE ps[n].BurstDuration + SumBursts(ps, n - 1)

\* C1: when SJFSchedule or SJFPrioritySchedule returns on a non-empty batch,
\* the trace has exactly one interval per process and the table exactly one
\* filled row per process.
C1_EveryProcessDispatchedOnce ==
    (pc = "done" /\ policy \in SJFLike /\ Len(processes) > 0) =>
        /\ Len(gantt) = Len(processes)
        /\ \A k \in 1..Len(processes) :
              /\ Cardinality(IntervalsOf(processes[k].ProcessID)) = 1
              /\ Cardinality(RowsOf(processes[k].ProcessID)) = 1
        /\ \A r \in 1..Len(schedule) : Filled(schedule[r])

\* C2: SJFSchedule and SJFPrioritySchedule never pop the ready queue while
\* it is empty.
C2_NeverPopsEmptyQueue == pc # "panic"

FCFSExample == <<Process(1, 0, 5), Process(2, 0, 3)>>

\* C3: under FCFS, when every process arrives at time 0 each recorded wait
\* is the sum of the bursts of the processes before it in input order, and
\* for the batch [(1,0,5),(2,0,3)] the average wait is 2.5.
C3_FCFSWaitIsSumOfEarlierBursts ==
    (pc = "done" /\ policy = "FCFS"
        /\ \A k \in 1..Len(before) : before[k].ArrivalTime = 0) =>
        /\ \A k \in 1..Len(before) :
              RowWait(schedule[k]) = SumBursts(before, k - 1)
        /\ before = FCFSExample =>
              aveWait.kind = "finite" /\ 2 * aveWait.num = 5 * aveWait.den

\* C4: in FCFS, SJF and SJF-Priority every recorded completion equals
\* arrival + wait + burst and is the stop of that process's interval.
C4_CompletionIsIntervalStop ==
    policy \in {"FCFS"} \cup SJFLike =>
        \A r \in 1..Len(schedule) :
            Filled(schedule[r]) =>
                /\ RowExit(schedule[r]) =
                       RowArrival(schedule[r]) + RowWait(schedule[r]) + RowBurst(schedule[r])
                /\ \E g \in IntervalsOf(RowID(schedule[r])) :
                       gantt[g].Stop = RowExit(schedule[r])

\* the last interval of a process in the trace
LastIntervalOf(id) == CHOOSE g \in IntervalsOf(id) : \A h \in IntervalsOf(id) : h <= g

\* C5 as stated: under Round-Robin the recorded completion equals
\* arrival + recorded wait + the original burst.
C5_RRCompletionWithOriginalBurst ==
    (pc = "done" /\ policy = "RR") =>
        \A k \in 1..Len(before) :
            LET row == schedule[before[k].ProcessID]
            IN  RowExit(row) = before[k].ArrivalTime + RowWait(row) + before[k].BurstDuration

\* C5 amended: under Round-Robin the row of a process, after its last
\* interval, has completion = arrival + recorded wait + the time slice of
\* that last dispatch, and completion is the stop of the last interval.
C5_RRCompletionWithLastSlice ==
    (pc = "done" /\ policy = "RR") =>
        \A k \in 1..Len(before) :
            LET row == schedule[before[k].ProcessID]
            IN  /\ Filled(row)
                /\ RowExit(row) = before[k].ArrivalTime + RowWait(row) + RowBurst(row)
                /\ RowExit(row) = gantt[LastIntervalOf(before[k].ProcessID)].Stop

C5_Witness ==
    /\ pc = "done" /\ policy = "RR"
    /\ \E k \in 1..Len(before) :
          /\ before[k].BurstDuration >= 2
          /\ before[k].ArrivalTime > 0
          /\ RowWait(schedule[before[k].ProcessID]) > 0

\* C6: in SJF and SJF-Priority every emitted interval starts at or after
\* the arrival of its process, and every recorded wait is >= 0.
C6_NoDispatchBeforeArrival ==
    policy \in SJFLike =>
        /\ \A g \in 1..Len(gantt) :
              gantt[g].Start >=
                  processes[PositionOf(processes, gantt[g].PID)].ArrivalTime
        /\ \A r \in 1..Len(schedule) :
              Filled(schedule[r]) => RowWait(schedule[r]) >= 0

C6_Witness ==
    /\ pc = "done" /\ policy \in SJFLike
    /\ \E g \in 1..Len(gantt) :
          LET p == processes[PositionOf(processes, gantt[g].PID)]
          IN  p.ArrivalTime > 0 /\ gantt[g].Start > p.ArrivalTime

RRExample == <<Process(1, 0, 3), Process(2, 1, 2)>>

\* C7 as stated: Round-Robin on [(1,0,3),(2,1,2)] yields the trace
\* [(1,0,1),(1,1,2),(2,2,3),(1,3,4)].
C7_RRExampleFourIntervals ==
    (pc = "done" /\ policy = "RR" /\ before = RRExample) =>
        gantt = <<TimeSlice(1, 0, 1), TimeSlice(1, 1, 2), TimeSlice(2, 2, 3),
                  TimeSlice(1, 3, 4)>>

\* C7 amended: Round-Robin on [(1,0,3),(2,1,2)] yields the trace
\* [(1,0,1),(1,1,2),(2,2,3),(1,3,4),(2,4,5)].
C7_RRExampleTrace ==
    (pc = "done" /\ policy = "RR" /\ before = RRExample) =>
        gantt = <<TimeSlice(1, 0, 1), TimeSlice(1, 1, 2), TimeSlice(2, 2, 3),
                  TimeSlice(1, 3, 4), TimeSlice(2, 4, 5)>>

C7_Witness ==
    pc = "done" /\ policy = "RR" /\ before = RRExample /\ Len(gantt) = 5

\* C8: FCFSSchedule, SJFSchedule and SJFPrioritySchedule leave the caller's
\* batch unchanged: same descriptors in the same order as before the call.
C8_NonPreemptiveLeaveBatchUnchanged ==
    policy \in {"FCFS"} \cup SJFLike => processes = before

\* C9: RRSchedule never writes back to the caller's batch, although the
\* working copies in the ready queue have their bursts decremented.
C9_RRLeavesBatchUnchanged ==
    policy = "RR" => processes = before

C9_Witness ==
    /\ pc = "done" /\ policy = "RR"
    /\ Len(gantt) > Len(processes)
    /\ \E k \in 1..Len(processes) : processes[k].BurstDuration >= 2
    /\ processes = before

\* C10: for a batch of zero processes every policy returns without a crash
\* and without computing an average or the throughput as 0/0.
C10_EmptyBatchNoNaN ==
    Len(before) = 0 =>
        /\ pc # "panic"
        /\ pc = "done" =>
              /\ aveWait.kind # "NaN"
              /\ aveTurnaround.kind # "NaN"
              /\ aveThroughput.kind # "NaN"

\* the descriptor of the batch with a given id
ProcessOf(id) == processes[PositionOf(processes, id)]

\* the ids dispatched by the intervals before interval g
DispatchedBefore(g) == { gantt[h].PID : h \in 1..(g - 1) }

\* C11: in SJF-Priority, when a process with burst 1 and a process with
\* burst >= 2 are both in the ready queue at a dispatch, the burst-1 process
\* is dispatched first: a dispatch of a burst >= 2 process never leaves a
\* burst-1 process behind in the ready queue.
C11_BurstOneDispatchedFirst ==
    (policy = "SJFPriority" /\ Len(gantt) > 0
        /\ ProcessOf(gantt[Len(gantt)].PID).BurstDuration >= 2) =>
        \A q \in 1..Len(readyQueue) : readyQueue[q].Process.BurstDuration # 1

SingleExample == <<Process(1, 0, 5)>>

\* C12: under FCFS the throughput is the process count divided by the
\* recorded completion of the last process in input order; for the single
\* process (1, arrival 0, burst 5) it is 1/5.
C12_FCFSThroughput ==
    (pc = "done" /\ policy = "FCFS" /\ Len(before) > 0) =>
        /\ aveThroughput =
              Quotient(Len(before), RowExit(schedule[Len(before)]))
        /\ before = SingleExample =>
              /\ aveThroughput.kind = "finite"
              /\ 5 * aveThroughput.num = aveThroughput.den

C12_Witness ==
    /\ pc = "done" /\ policy = "FCFS" /\ before = SingleExample
    /\ aveThroughput = [kind |-> "finite", num |-> 1, den |-> 5]

\* the processes that have arrived by the start of interval g and were not
\* dispatched by an earlier interval
ReadyAt(g) ==
    { k \in 1..Len(processes) :
        /\ processes[k].ArrivalTime <= gantt[g].Start
        /\ processes[k].ProcessID \notin DispatchedBefore(g) }

\* C13: at every SJF dispatch the dispatched process has the smallest burst
\* among the processes that have arrived and are not yet dispatched.
C13_SJFDispatchesShortest ==
    policy = "SJF" =>
        \A g \in 1..Len(gantt) :
            \A k \in ReadyAt(g) :
                ProcessOf(gantt[g].PID).BurstDuration <= processes[k].BurstDuration

C13_Witness ==
    /\ pc = "done" /\ policy = "SJF"
    /\ \E g \in 1..Len(gantt) :
          \E k \in ReadyAt(g) :
              ProcessOf(gantt[g].PID).BurstDuration < processes[k].BurstDuration

RECURSIVE RunLength(_, _)
\* the total length of the intervals of a process among the first n intervals
RunLength(id, n) ==
    IF n = 0 THEN 0
    ELSE RunLength(id, n - 1)
           + (IF gantt[n].PID = id THEN gantt[n].Stop - gantt[n].Start ELSE 0)

QueuePositionsOf(id) == { q \in 1..Len(queue) : queue[q].ProcessID = id }

\* C14: under Round-Robin every interval has length min(1, remaining
\* burst); after a dispatch the process is at the back of the ready queue,
\* with its remaining burst, exactly when that remainder is > 0; and at the
\* return the interval lengths of each process sum to its original burst.
C14_RRSlicesAndRequeue ==
    policy = "RR" =>
        /\ \A g \in 1..Len(gantt) :
              gantt[g].Stop - gantt[g].Start =
                  min(1, ProcessOf(gantt[g].PID).BurstDuration
                            - RunLength(gantt[g].PID, g - 1))
        /\ Len(gantt) > 0 =>
              LET id == gantt[Len(gantt)].PID
                  remaining == ProcessOf(id).BurstDuration - RunLength(id, Len(gantt))
              IN  IF remaining > 0
                  THEN /\ QueuePositionsOf(id) = {Len(queue)}
                       /\ queue[Len(queue)].BurstDuration = remaining
                  ELSE QueuePositionsOf(id) = {}
        /\ pc = "done" =>
              \A k \in 1..Len(processes) :
                  RunLength(processes[k].ProcessID, Len(gantt)) =
                      processes[k].BurstDuration

C14_Witness ==
    /\ pc = "done" /\ policy = "RR" /\ Len(processes) = 2
    /\ \A k \in 1..Len(processes) :
          Cardinality(IntervalsOf(processes[k].ProcessID)) >= 2
    /\ \E g \in 1..(Len(gantt) - 1) : gantt[g].PID # gantt[g + 1].PID

\* the scheduler steps run to completion once called
RRLiveSpec ==
    Spec /\ WF_vars(RRDispatch) /\ WF_vars(RRIdle) /\ WF_vars(RRFinish)

\* C15: RRSchedule terminates for every batch with positive bursts, idle
\* gaps before or between arrivals included, and when it terminates every
\* process has been admitted and the ready queue is empty.
C15_RRTerminates ==
    (policy = "RR" /\ pc = "loop") ~>
        (policy = "RR" /\ pc = "done"
            /\ processCounter = Len(processes) /\ queue = <<>>)

\* a completed Round-Robin run that idled between a completion and the next
\* arrival
C15_Witness ==
    /\ pc = "done" /\ policy = "RR" /\ Len(gantt) >= 2
    /\ processCounter = Len(processes) /\ queue = <<>>
    /\ \E g \in 1..(Len(gantt) - 1) : gantt[g + 1].Start > gantt[g].Stop

\* C16: in the trace of every policy every interval has stop >= start and
\* starts no earlier than the interval emitted before it.
C16_StartsNonDecreasing ==
    /\ \A g \in 1..Len(gantt) : gantt[g].Stop >= gantt[g].Start
    /\ \A g \in 1..(Len(gantt) - 1) : gantt[g + 1].Start >= gantt[g].Start

SortedByArrival(ps) ==
    \A k \in 1..(Len(ps) - 1) : ps[k].ArrivalTime <= ps[k + 1].ArrivalTime

\* C17: for a batch sorted by arrival time, no two intervals of a trace
\* overlap: every interval starts at or after the stop of the one before it.
C17_NoOverlap ==
    SortedByArrival(before) =>
        \A g \in 1..(Len(gantt) - 1) : gantt[g + 1].Start >= gantt[g].Stop

\* C18: in FCFS the wait of a process with arrival > 0 is serviceTime -
\* arrival (serviceTime being the sum of the earlier bursts); a process with
\* arrival 0 reuses the wait of the process before it (0 for the first);
\* start, turnaround and completion are derived from that wait.
C18_FCFSStaleWait ==
    policy = "FCFS" =>
        \A k \in 1..Len(gantt) :
            LET p == before[k]
                w == RowWait(schedule[k])
            IN  /\ w = IF p.ArrivalTime > 0
                         THEN SumBursts(before, k - 1) - p.ArrivalTime
                       ELSE IF k = 1 THEN 0
                       ELSE RowWait(schedule[k - 1])
                /\ gantt[k].Start = w + p.ArrivalTime
                /\ RowTurnaround(schedule[k]) = p.BurstDuration + w
                /\ RowExit(schedule[k]) = p.BurstDuration + p.ArrivalTime + w

C18_Witness ==
    /\ pc = "done" /\ policy = "FCFS"
    /\ \E k \in 2..Len(before) :
          /\ before[k].ArrivalTime = 0
          /\ RowWait(schedule[k]) = RowWait(schedule[k - 1])
          /\ RowWait(schedule[k]) # SumBursts(before, k - 1)

\* the processes that have arrived by the current serviceTime and still
\* have burst left to run
ArrivedUnfinished ==
    { k \in 1..Len(processes) :
        /\ processes[k].ArrivalTime <= serviceTime
        /\ RunLength(processes[k].ProcessID, Len(gantt)) < processes[k].BurstDuration }

\* C19: Round-Robin is work-conserving: an idle tick is taken only when no
\* arrived process has burst left, and whenever one has, the next step
\* dispatches a process at start = serviceTime.
C19_RRWorkConserving ==
    [][(policy = "RR" /\ pc = "loop" /\ pc' = "loop") =>
          IF ArrivedUnfinished = {}
          THEN gantt' = gantt /\ serviceTime' = serviceTime + 1
          ELSE /\ Len(gantt') = Len(gantt) + 1
               /\ gantt'[Len(gantt')].Start = serviceTime
               /\ gantt'[Len(gantt')].PID = Head(RRAdmitted).ProcessID]_vars

====
